---- MODULE Spec2Model ----
(***************************************************************************)
(* A model of the front end of ibrahim3c/simple-compiler-for-c:            *)
(*   lexer.py             Lexer(s)                                         *)
(*   parser.py            Parser (recursive descent over the tokens)       *)
(*   Sementic_Analyzer.py SymbolTable and SemanticAnalyzer                 *)
(*                                                                         *)
(* Python strings are sequences of one-character strings; the fixed words  *)
(* the program writes into node labels ("Identifier", "Function", ...) are *)
(* single elements of such a sequence.  A dict is a function whose DOMAIN  *)
(* is its key set.                                                         *)
(***************************************************************************)
EXTENDS Integers, Sequences, FiniteSets, TLC

(***************************************************************************)
(* Bounds of the model.                                                    *)
(***************************************************************************)
MaxNodes == 3      \* declarations and statements one analyzer is given in all
MaxDepth == 2      \* function bodies open at once within one analyze call
MaxRuns  == 2      \* analyze calls on one SemanticAnalyzer
MaxArgs  == 1      \* arguments of one call in an analyzed tree
MaxTokens == 3     \* length of the token sequences tried exhaustively
MaxSourceArgs == 2 \* arguments of one call in a source text

(***************************************************************************)
(* Strings.                                                                *)
(***************************************************************************)
s_int     == <<"i", "n", "t">>
s_float   == <<"f", "l", "o", "a", "t">>
s_double  == <<"d", "o", "u", "b", "l", "e">>
s_char    == <<"c", "h", "a", "r">>
s_void    == <<"v", "o", "i", "d">>
s_if      == <<"i", "f">>
s_x       == <<"x">>
s_f       == <<"f">>
s_printf  == <<"p", "r", "i", "n", "t", "f">>
s_puts    == <<"p", "u", "t", "s">>
s_getchar == <<"g", "e", "t", "c", "h", "a", "r">>
s_scanf   == <<"s", "c", "a", "n", "f">>
s_5       == <<"5">>
s_1e5     == <<"1", "e", "5">>
s_5dot0   == <<"5", ".", "0">>

\* str.split(sep): the pieces of s between the occurrences of sep
RECURSIVE split(_, _)
split(s, sep) ==
    IF \E i \in 1..Len(s) : s[i] = sep
    THEN LET i == CHOOSE k \in 1..Len(s) :
                      s[k] = sep /\ \A j \in 1..(k - 1) : s[j] # sep
         IN  <<SubSeq(s, 1, i - 1)>> \o split(SubSeq(s, i + 1, Len(s)), sep)
    ELSE <<s>>

RECURSIVE lstrip(_, _)
lstrip(s, c) == IF s # <<>> /\ Head(s) = c THEN lstrip(Tail(s), c) ELSE s

RECURSIVE rstrip(_, _)
rstrip(s, c) ==
    IF s # <<>> /\ s[Len(s)] = c THEN rstrip(SubSeq(s, 1, Len(s) - 1), c) ELSE s

\* str.strip(c)
strip(s, c) == rstrip(lstrip(s, c), c)

\* str.startswith(word), word being one of the fixed label words
startswith(s, word) == s # <<>> /\ s[1] = word

DecimalDigits == {"0", "1", "2", "3", "4", "5", "6", "7", "8", "9"}

\* int(value) succeeds: a non-empty run of decimal digits
IsDigits(s) == s # <<>> /\ \A i \in 1..Len(s) : s[i] \in DecimalDigits

int_parses(value) == IsDigits(value)

\* the mantissa of a float literal: digits, digits '.', '.' digits, digits '.' digits
IsMantissa(s) ==
    \/ IsDigits(s)
    \/ \E i \in 1..Len(s) :
          /\ s[i] = "."
          /\ Len(s) > 1
          /\ \A j \in (1..Len(s)) \ {i} : s[j] \in DecimalDigits

\* float(value) succeeds: mantissa, optionally 'e' digits; or nan
float_parses(value) ==
    \/ IsMantissa(value)
    \/ \E i \in 1..Len(value) :
          /\ value[i] = "e"
          /\ IsMantissa(SubSeq(value, 1, i - 1))
          /\ IsDigits(SubSeq(value, i + 1, Len(value)))
    \/ value = <<"n", "a", "n">>

(***************************************************************************)
(* lexer.py                                                                *)
(***************************************************************************)
\* string.punctuation, but for the backquote, which no TLA+ string can hold
\* and no source text of the model contains
punctuation ==
    {"!", "\"", "#", "$", "%", "&", "'", "(", ")", "*", "+", ",", "-", ".", "/",
     ":", ";", "<", "=", ">", "?", "@", "[", "\\", "]", "^", "_", "{", "|", "}", "~"}

whitespace == {" ", "\t", "\n"}

is_punctuator(ch) == ch \in punctuation \/ ch \in whitespace

valid_identifier(s) ==
    IF s = <<>> THEN FALSE
    ELSE IF s[1] \in DecimalDigits \/ is_punctuator(s[1]) THEN FALSE
    ELSE \A i \in 2..Len(s) : ~ is_punctuator(s[i])

is_operator(ch) == ch \in {"+", "-", "*", "/", ">", "<", "|", "&", "="}

keywords ==
    {<<"i", "f">>,
     <<"e", "l", "s", "e">>,
     <<"w", "h", "i", "l", "e">>,
     <<"d", "o">>,
     <<"b", "r", "e", "a", "k">>,
     <<"c", "o", "n", "t", "i", "n", "u", "e">>,
     <<"i", "n", "t">>,
     <<"d", "o", "u", "b", "l", "e">>,
     <<"f", "l", "o", "a", "t">>,
     <<"r", "e", "t", "u", "r", "n">>,
     <<"c", "h", "a", "r">>,
     <<"c", "a", "s", "e">>,
     <<"l", "o", "n", "g">>,
     <<"s", "h", "o", "r", "t">>,
     <<"t", "y", "p", "e", "d", "e", "f">>,
     <<"s", "w", "i", "t", "c", "h">>,
     <<"u", "n", "s", "i", "g", "n", "e", "d">>,
     <<"v", "o", "i", "d">>,
     <<"s", "t", "a", "t", "i", "c">>,
     <<"s", "t", "r", "u", "c", "t">>,
     <<"s", "i", "z", "e", "o", "f">>,
     <<"v", "o", "l", "a", "t", "i", "l", "e">>,
     <<"e", "n", "u", "m">>,
     <<"c", "o", "n", "s", "t">>,
     <<"u", "n", "i", "o", "n">>,
     <<"e", "x", "t", "e", "r", "n">>,
     <<"b", "o", "o", "l">>}

is_keyword(s) == s \in keywords

\* float(s) does not raise
is_number(s) == float_parses(s)

Token(token_type, value) == [token_type |-> token_type, value |-> value]

\* the token a maximal run of non-punctuator characters becomes
RunToken(sub) ==
    IF is_keyword(sub) THEN Token("KEYWORD", sub)
    ELSE IF is_number(sub) THEN Token("NUMBER", sub)
    ELSE IF valid_identifier(sub) THEN Token("IDENTIFIER", sub)
    ELSE Token("INVALID IDENTIFIER", sub)

\* the condition of the while loop of Lexer; left and right count characters
\* from 0 as in the source, s[right] there is s[right + 1] here
LexerContinues(s, st) == st.right <= Len(s) /\ st.left <= st.right

\* one iteration of the while loop
LexerStep(s, st) ==
    LET left   == st.left
        right  == st.right
        tokens == st.tokens
    IN  IF right < Len(s) /\ ~ is_punctuator(s[right + 1])
        THEN [st EXCEPT !.right = right + 1]
        ELSE IF right < Len(s) /\ is_punctuator(s[right + 1]) /\ left = right
        THEN [left   |-> right + 1,
              right  |-> right + 1,
              tokens |-> IF is_operator(s[right + 1])
                         THEN Append(tokens, Token("OPERATOR", <<s[right + 1]>>))
                         ELSE IF s[right + 1] \in {"(", ")", "{", "}", ";"}
                         THEN Append(tokens, Token("DELIMITER", <<s[right + 1]>>))
                         ELSE tokens]
        ELSE IF (right = Len(s) \/ is_punctuator(s[right + 1])) /\ left # right
        THEN [left   |-> right,
              right  |-> right,
              tokens |-> Append(tokens, RunToken(SubSeq(s, left + 1, right)))]
        ELSE [st EXCEPT !.right = right + 1]

\* up to n iterations of the loop, made as two halves
RECURSIVE LexerLoop(_, _, _)
LexerLoop(s, n, st) ==
    IF ~ LexerContinues(s, st) \/ n = 0 THEN st
    ELSE IF n = 1 THEN LexerStep(s, st)
    ELSE CHOOSE done \in {LexerLoop(s, n - (n \div 2), half) :
                              half \in {LexerLoop(s, n \div 2, st)}} : TRUE

\* the loop ends within 2 * len(s) + 2 iterations: an iteration advances
\* right, or makes left = right and is followed by one that advances right
Lexer(s) ==
    LexerLoop(s, 2 * Len(s) + 2, [left |-> 0, right |-> 0, tokens |-> <<>>]).tokens

(***************************************************************************)
(* Parse tree nodes (parser.py, class ParseNode).                          *)
(***************************************************************************)
ParseNode(name, children) == [name |-> name, children |-> children]

\* f"Kind({value})"
Label(kind, value) == <<kind, "(">> \o value \o <<")">>

\* node.name.split('(')[1].strip(')')
Payload(node) == strip(split(node.name, "(")[2], ")")

\* node.name.split('(')[0]
Kind(node) == split(node.name, "(")[1]

(***************************************************************************)
(* Semantic errors: SemanticError carries only a message; the record keeps *)
(* the fixed part of the message (kind), the symbol it quotes and the      *)
(* prefix a handler adds when it re-raises.                                *)
(***************************************************************************)
NoError == [kind |-> "None", name |-> <<>>, wrap |-> "none"]

SemanticError(kind, name) == [kind |-> kind, name |-> name, wrap |-> "none"]

\* raise SemanticError(f"<prefix>: {str(e)}")
Reraise(prefix, e) == [e EXCEPT !.wrap = prefix]

(***************************************************************************)
(* SymbolTable.  The live scopes form a chain through .parent; chain[1] is *)
(* the global table and chain[Len(chain)] the current one, whose parent is *)
(* the element before it.                                                  *)
(***************************************************************************)
Symbol(type_name, is_function) == [type |-> type_name, is_function |-> is_function]

NoSymbol == Symbol(<<>>, FALSE)

\* SymbolTable.__init__: self.symbols = {}
EmptySymbols == [n \in {} |-> NoSymbol]

\* declare as it would be if it refused only a redeclaration with the same
\* type and flag, and let any other replace the entry
declare_same_symbol_only(symbols, name, type_name, is_function) ==
    IF name \in DOMAIN symbols /\ symbols[name] = Symbol(type_name, is_function)
    THEN [err |-> SemanticError("AlreadyDeclared", name), symbols |-> symbols]
    ELSE [err |-> NoError,
          symbols |-> [n \in (DOMAIN symbols) \cup {name} |->
                          IF n = name THEN Symbol(type_name, is_function)
                          ELSE symbols[n]]]

\* declare as it would be without the membership test: the entry is replaced
declare_overwrites(symbols, name, type_name, is_function) ==
    [err |-> NoError,
     symbols |-> [n \in (DOMAIN symbols) \cup {name} |->
                     IF n = name THEN Symbol(type_name, is_function)
                     ELSE symbols[n]]]

\* SymbolTable.declare
declare(symbols, name, type_name, is_function) ==
    IF name \in DOMAIN symbols
    THEN [err |-> SemanticError("AlreadyDeclared", name), symbols |-> symbols]
    ELSE [err |-> NoError,
          symbols |-> [n \in (DOMAIN symbols) \cup {name} |->
                          IF n = name THEN Symbol(type_name, is_function)
                          ELSE symbols[n]]]

\* lookup as it would be if it did not delegate to the parent scope
lookup_own_scope_only(chain, i, name) ==
    IF name \in DOMAIN chain[i]
    THEN [err |-> NoError, info |-> chain[i][name]]
    ELSE [err |-> SemanticError("Undeclared", name), info |-> NoSymbol]

\* SymbolTable.lookup, called on chain[i]
RECURSIVE lookup(_, _, _)
lookup(chain, i, name) ==
    IF name \in DOMAIN chain[i]
    THEN [err |-> NoError, info |-> chain[i][name]]
    ELSE IF i > 1
         THEN lookup(chain, i - 1, name)
         ELSE [err |-> SemanticError("Undeclared", name), info |-> NoSymbol]

(***************************************************************************)
(* SemanticAnalyzer: the checks that do not change the scopes.             *)
(***************************************************************************)
compatible_types ==
    (s_int    :> {s_int}) @@
    (s_float  :> {s_int, s_float}) @@
    (s_double :> {s_int, s_float, s_double}) @@
    (s_char   :> {s_char})

\* _is_compatible_type as it would be if compatibility went both ways
_is_compatible_type_symmetric(type1, type2) ==
    \/ type1 \in DOMAIN compatible_types /\ type2 \in compatible_types[type1]
    \/ type2 \in DOMAIN compatible_types /\ type1 \in compatible_types[type2]

\* SemanticAnalyzer._is_compatible_type
_is_compatible_type(type1, type2) ==
    IF type1 \in DOMAIN compatible_types
    THEN type2 \in compatible_types[type1]
    ELSE FALSE

\* SemanticAnalyzer._infer_number_type
_infer_number_type(number_node) ==
    LET value == Payload(number_node)
    IN  IF int_parses(value) THEN [err |-> NoError, type |-> s_int]
        ELSE IF float_parses(value) THEN [err |-> NoError, type |-> s_double]
        ELSE [err |-> SemanticError("InvalidNumber", value), type |-> <<>>]

\* SemanticAnalyzer._type_check_assignment, with chain ending in the current scope
_type_check_assignment(chain, expected_type, value_node) ==
    IF startswith(value_node.name, "Number")
    THEN LET t == _infer_number_type(value_node)
         IN  IF t.err # NoError THEN t.err
             ELSE IF ~ _is_compatible_type(expected_type, t.type)
                  THEN SemanticError("TypeMismatch", t.type)
                  ELSE NoError
    ELSE IF startswith(value_node.name, "Identifier")
    THEN LET var_name == Payload(value_node)
             var_info == lookup(chain, Len(chain), var_name)
         IN  IF var_info.err # NoError
             THEN Reraise("Assignment error", var_info.err)
             ELSE IF ~ _is_compatible_type(expected_type, var_info.info.type)
                  THEN Reraise("Assignment error",
                               SemanticError("TypeMismatch", var_info.info.type))
                  ELSE NoError
    ELSE NoError

\* SemanticAnalyzer._analyze_function_call
_analyze_function_call(chain, node) ==
    LET func_name == Payload(node.children[1])
        func_info == lookup(chain, Len(chain), func_name)
    IN  IF func_info.err # NoError
        THEN Reraise("Function call error", func_info.err)
        ELSE IF ~ func_info.info.is_function
             THEN Reraise("Function call error",
                          SemanticError("NotAFunction", func_name))
             ELSE NoError

\* the first error raised by a loop `for child in children: visit(child)`
RECURSIVE FirstError(_)
FirstError(errs) ==
    IF errs = <<>> THEN NoError
    ELSE IF Head(errs) # NoError THEN Head(errs)
    ELSE FirstError(Tail(errs))

\* SemanticAnalyzer._analyze_node on an expression or expression statement:
\* FunctionCall goes to _analyze_function_call; ExpressionStatement and every
\* kind without a method (Number, Identifier) visit their children in order.
RECURSIVE _analyze_expression_node(_, _)
_analyze_expression_node(chain, node) ==
    IF Kind(node) = <<"FunctionCall">>
    THEN _analyze_function_call(chain, node)
    ELSE FirstError([i \in 1..Len(node.children) |->
                        _analyze_expression_node(chain, node.children[i])])

\* _analyze_variable_declaration as it would be if the variable were declared
\* before its initializer is checked
_analyze_variable_declaration_declare_first(chain, node) ==
    LET var_type == Payload(node.children[1])
        var_name == Payload(node.children[2])
        d        == declare(chain[Len(chain)], var_name, var_type, FALSE)
        declared == [chain EXCEPT ![Len(chain)] = d.symbols]
        check    == IF Len(node.children) > 2
                    THEN _type_check_assignment(declared, var_type, node.children[3])
                    ELSE NoError
    IN  IF d.err # NoError
        THEN [err |-> d.err, chain |-> chain]
        ELSE [err |-> check, chain |-> declared]

\* SemanticAnalyzer._analyze_variable_declaration on the current scope
_analyze_variable_declaration(chain, node) ==
    LET var_type == Payload(node.children[1])
        var_name == Payload(node.children[2])
        check    == IF Len(node.children) > 2
                    THEN _type_check_assignment(chain, var_type, node.children[3])
                    ELSE NoError
        d        == declare(chain[Len(chain)], var_name, var_type, FALSE)
    IN  IF check # NoError
        THEN [err |-> check, chain |-> chain]
        ELSE [err |-> d.err, chain |-> [chain EXCEPT ![Len(chain)] = d.symbols]]

(***************************************************************************)
(* The trees handed to analyze.  The analyzer visits the children of a     *)
(* Program or DeclarationList strictly in order and once each, so the next *)
(* child is drawn when the loop reaches it.  The nodes are the ones the    *)
(* parser builds (parser.py, parse_declaration .. parse_function_call).    *)
(***************************************************************************)
Types         == {s_int, s_float, s_double, s_char}
FunctionTypes == {s_int, s_char}
FunctionNames == {s_f, s_x}
Names         == {s_x, s_f, s_puts}
NumberTexts   == {s_5, s_1e5, s_5dot0}

TypeNode(t)       == ParseNode(Label("Type", t), <<>>)
IdentifierNode(n) == ParseNode(Label("Identifier", n), <<>>)
NumberNode(v)     == ParseNode(Label("Number", v), <<>>)
FunctionCallNode(id_node, args) == ParseNode(<<"FunctionCall">>, <<id_node>> \o args)

SeqsUpTo(S, n) == UNION {[1..k -> S] : k \in 0..n}

\* arguments are never visited by the analyzer: one kind, a call, is drawn
ArgumentNodes == {FunctionCallNode(IdentifierNode(s_f), <<>>)}

FunctionCallNodes ==
    {FunctionCallNode(IdentifierNode(n), args) :
        n \in Names, args \in SeqsUpTo(ArgumentNodes, MaxArgs)}

\* initializers that _type_check_assignment checks
ValueNodes ==
    {NumberNode(v) : v \in NumberTexts} \cup {IdentifierNode(n) : n \in {s_x, s_f}}

\* every type with every initializer for x; the name of a predefined
\* function as an int, bare or initialized; a call as the initializer of x
VariableDeclarationNodes ==
    {ParseNode(<<"VariableDeclaration">>, <<TypeNode(t), IdentifierNode(s_x)>>) :
        t \in Types}
        \cup {ParseNode(<<"VariableDeclaration">>, <<TypeNode(t), IdentifierNode(s_x), e>>) :
                 t \in Types, e \in ValueNodes}
        \cup {ParseNode(<<"VariableDeclaration">>, <<TypeNode(s_int), IdentifierNode(s_puts)>>),
              ParseNode(<<"VariableDeclaration">>,
                        <<TypeNode(s_int), IdentifierNode(s_puts), NumberNode(s_5)>>)}
        \cup {ParseNode(<<"VariableDeclaration">>, <<TypeNode(s_int), IdentifierNode(s_x), e>>) :
                 e \in FunctionCallNodes}

ExpressionStatementNodes ==
    {ParseNode(<<"ExpressionStatement">>, <<e>>) :
        e \in {NumberNode(s_5), IdentifierNode(s_x)} \cup FunctionCallNodes}

\* a Function node without its third child: the body's children are drawn
\* one by one while the body is analyzed
FunctionNodes ==
    {ParseNode(<<"Function">>, <<TypeNode(t), IdentifierNode(n)>>) :
        t \in FunctionTypes, n \in FunctionNames}

NoNode == ParseNode(<<>>, <<>>)

(***************************************************************************)
(* SemanticAnalyzer: state.                                                *)
(***************************************************************************)
VARIABLES
    predefined_functions,  \* the constructor's argument
    symbol_tables,         \* chain of live scopes: global_symbol_table first,
                           \* current_symbol_table last
    astack,                \* the analyzer's active calls, innermost last
    outcome,               \* what the last analyze call returned or raised
    runs,                  \* analyze calls made so far
    visited,               \* declarations and statements analyzed so far
    popped,                \* names that were declared in a scope since discarded
    last                   \* the step just taken: its node and the chain before it

avars == <<predefined_functions, symbol_tables, astack, outcome, runs, visited, popped, last>>

\* the state of the lexer and parser (parser.py, class Parser)
VARIABLES
    src,      \* the source text given to Lexer
    tokens,   \* Parser.tokens
    index,    \* Parser.index
    pstack,   \* the parser's active calls, innermost last
    presult,  \* what parse_program returned or raised
    pphase    \* "text": not yet tokenized; "tokens"; "parsing"; "done"

pvars == <<src, tokens, index, pstack, presult, pphase>>

global_symbol_table  == symbol_tables[1]
current_symbol_table == symbol_tables[Len(symbol_tables)]

\* predefined_functions=None is [given |-> FALSE]
None == [given |-> FALSE, map |-> EmptySymbols]
Dict(m) == [given |-> TRUE, map |-> m]

\* bool(x) of None or a dict
Truthy(p) == p.given /\ DOMAIN p.map # {}

default_functions ==
    [n \in {s_printf, s_puts, s_getchar, s_scanf} |-> Symbol(s_int, TRUE)]

\* predefined_functions or default_functions
functions_to_add(p) == IF Truthy(p) THEN p.map ELSE default_functions

\* for name, info in functions_to_add.items(): declare(name, info.type, info.is_function)
RECURSIVE DeclareAll(_, _, _)
DeclareAll(symbols, map, todo) ==
    IF todo = {} THEN symbols
    ELSE LET name == CHOOSE n \in todo : TRUE
         IN  DeclareAll(declare(symbols, name, map[name].type,
                                map[name].is_function).symbols,
                        map, todo \ {name})

\* SemanticAnalyzer.__init__: the global table after construction
SeededTable(p) ==
    DeclareAll(EmptySymbols, functions_to_add(p), DOMAIN functions_to_add(p))

PredefinedChoices ==
    {None} \cup {Dict(m) : m \in UNION {[S -> {Symbol(s_void, TRUE)}] : S \in SUBSET {s_f}}}

Pending == [status |-> "none", err |-> NoError, table |-> EmptySymbols]
Returned(table) == [status |-> "ok", err |-> NoError, table |-> table]
Raised(e) == [status |-> "error", err |-> e, table |-> EmptySymbols]

Step(op, node) == [op |-> op, node |-> node, before |-> symbol_tables]

AInit ==
    /\ predefined_functions \in PredefinedChoices
    /\ symbol_tables = <<SeededTable(predefined_functions)>>
    /\ astack = <<>>
    /\ outcome = Pending
    /\ runs = 0
    /\ visited = 0
    /\ popped = {}
    /\ last = [op |-> "init", node |-> NoNode, before |-> <<>>]

(***************************************************************************)
(* SemanticAnalyzer: steps.                                                *)
(***************************************************************************)
\* an active call: the method and, for _analyze_function, its local
\* prev_symbol_table (the position of that scope in the chain)
Frame(method, prev) == [method |-> method, prev_symbol_table |-> prev]

Top == astack[Len(astack)]

OpenFunctions ==
    Cardinality({k \in 1..Len(astack) : astack[k].method = "_analyze_function"})

\* the loop of the innermost active call visits one more child
VisitChild ==
    /\ astack # <<>>
    /\ visited < MaxNodes
    /\ visited' = visited + 1

\* an exception leaves every active call; nothing restores the scopes
Raise(e) ==
    /\ astack' = <<>>
    /\ outcome' = Raised(e)

\* analyze(parse_tree) is called with a Program node: _analyze_node
\* dispatches to _analyze_program
analyze ==
    /\ astack = <<>>
    /\ runs < MaxRuns
    /\ runs' = runs + 1
    /\ astack' = <<Frame("_analyze_program", 0)>>
    /\ outcome' = Pending
    /\ last' = Step("analyze", NoNode)
    /\ UNCHANGED <<predefined_functions, symbol_tables, visited, popped>>
    /\ UNCHANGED pvars

\* the next child is a VariableDeclaration
AnalyzeVariableDeclaration(node) ==
    /\ VisitChild
    /\ LET r == _analyze_variable_declaration(symbol_tables, node)
       IN  /\ symbol_tables' = r.chain
           /\ IF r.err = NoError
              THEN UNCHANGED <<astack, outcome>>
              ELSE Raise(r.err)
    /\ last' = Step("VariableDeclaration", node)
    /\ UNCHANGED <<predefined_functions, runs, popped>>
    /\ UNCHANGED pvars

\* the next child is an ExpressionStatement
AnalyzeExpressionStatement(node) ==
    /\ VisitChild
    /\ LET e == _analyze_expression_node(symbol_tables, node)
       IN  IF e = NoError
           THEN UNCHANGED <<astack, outcome>>
           ELSE Raise(e)
    /\ last' = Step("ExpressionStatement", node)
    /\ UNCHANGED <<predefined_functions, symbol_tables, runs, popped>>
    /\ UNCHANGED pvars

\* the next child is a Function: _analyze_function up to the walk of the body
AnalyzeFunction(node) ==
    /\ VisitChild
    /\ OpenFunctions < MaxDepth
    /\ LET return_type == Payload(node.children[1])
           func_name   == Payload(node.children[2])
           prev        == Len(symbol_tables)
           d           == declare(symbol_tables[prev], func_name, return_type, TRUE)
       IN  /\ symbol_tables' =
                  Append([symbol_tables EXCEPT ![prev] = d.symbols], EmptySymbols)
           /\ IF d.err = NoError
              THEN astack' = Append(astack, Frame("_analyze_function", prev))
                   /\ outcome' = outcome
              ELSE Raise(d.err)
    /\ last' = Step("Function", node)
    /\ UNCHANGED <<predefined_functions, runs, popped>>
    /\ UNCHANGED pvars

\* the body of the innermost function has no more children:
\* _analyze_function restores the previous symbol table and returns
FunctionReturn ==
    /\ astack # <<>>
    /\ Top.method = "_analyze_function"
    /\ symbol_tables' = SubSeq(symbol_tables, 1, Top.prev_symbol_table)
    /\ popped' = popped \cup
                    UNION {DOMAIN symbol_tables[k] :
                              k \in (Top.prev_symbol_table + 1)..Len(symbol_tables)}
    /\ astack' = SubSeq(astack, 1, Len(astack) - 1)
    /\ last' = Step("FunctionReturn", NoNode)
    /\ UNCHANGED <<predefined_functions, outcome, runs, visited>>
    /\ UNCHANGED pvars

\* the Program has no more children: analyze returns the global table
AnalyzeReturn ==
    /\ astack # <<>>
    /\ Top.method = "_analyze_program"
    /\ astack' = <<>>
    /\ outcome' = Returned(global_symbol_table)
    /\ last' = Step("AnalyzeReturn", NoNode)
    /\ UNCHANGED <<predefined_functions, symbol_tables, runs, visited, popped>>
    /\ UNCHANGED pvars

ANext ==
    \/ analyze
    \/ \E node \in VariableDeclarationNodes : AnalyzeVariableDeclaration(node)
    \/ \E node \in ExpressionStatementNodes : AnalyzeExpressionStatement(node)
    \/ \E node \in FunctionNodes : AnalyzeFunction(node)
    \/ FunctionReturn
    \/ AnalyzeReturn

(***************************************************************************)
(* parser.py: Parser.  Every method call is a frame of pstack: the method, *)
(* the point it has reached (pc) and the nodes it holds (children).        *)
(***************************************************************************)
NoToken == Token("", <<>>)

\* the exceptions of the parser: the message's fixed part, what consume was
\* told to expect and the token it met
ParseError(kind, expected, got) == [kind |-> kind, expected |-> expected, got |-> got]

NoParseError == ParseError("None", NoToken, NoToken)

\* an active call: entered is the cursor when the method was entered
PFrame(method, children) ==
    [method |-> method, pc |-> 0, children |-> children, entered |-> 0]

PTop == pstack[Len(pstack)]

At(method, pc) ==
    /\ pphase = "parsing"
    /\ pstack # <<>>
    /\ PTop.method = method
    /\ PTop.pc = pc

\* Parser.current_token: HasToken is `current_token() is not None`
HasToken == index < Len(tokens)

current_token == IF HasToken THEN tokens[index + 1] ELSE NoToken

\* consume without its check for the end of the input
consume_past_end(expected_type, expected_value) ==
    IF ~ HasToken
    THEN NoParseError
    ELSE IF expected_type # "" /\ current_token.token_type # expected_type
    THEN ParseError("ExpectedType", Token(expected_type, expected_value), current_token)
    ELSE IF expected_value # <<>> /\ current_token.value # expected_value
    THEN ParseError("ExpectedValue", Token(expected_type, expected_value), current_token)
    ELSE NoParseError

\* Parser.consume, up to the increment of index: the exception it raises;
\* "" and <<>> stand for expected_type=None and expected_value=None
consume(expected_type, expected_value) ==
    IF ~ HasToken
    THEN ParseError("EndOfInput", Token(expected_type, expected_value), NoToken)
    ELSE IF expected_type # "" /\ current_token.token_type # expected_type
    THEN ParseError("ExpectedType", Token(expected_type, expected_value), current_token)
    ELSE IF expected_value # <<>> /\ current_token.value # expected_value
    THEN ParseError("ExpectedValue", Token(expected_type, expected_value), current_token)
    ELSE NoParseError

PReturned(tree) == [status |-> "ok", tree |-> tree, err |-> NoParseError]
PRaised(e)      == [status |-> "error", tree |-> NoNode, err |-> e]
PPending        == [status |-> "none", tree |-> NoNode, err |-> NoParseError]

\* an exception leaves every active call, the cursor standing at idx
PRaise(e, idx) ==
    /\ index' = idx
    /\ pstack' = <<>>
    /\ presult' = PRaised(e)
    /\ pphase' = "done"
    /\ UNCHANGED <<src, tokens>>
    /\ UNCHANGED avars

\* the innermost call returns nodes to its caller, which appends them to the
\* nodes it holds; parse_program returns to the caller of the parser
PReturn(nodes, idx) ==
    /\ index' = idx
    /\ IF Len(pstack) = 1
       THEN /\ pstack' = <<>>
            /\ presult' = PReturned(nodes[1])
            /\ pphase' = "done"
       ELSE /\ pstack' = [SubSeq(pstack, 1, Len(pstack) - 1) EXCEPT
                             ![Len(pstack) - 1].children = @ \o nodes]
            /\ UNCHANGED <<presult, pphase>>
    /\ UNCHANGED <<src, tokens>>
    /\ UNCHANGED avars

\* the innermost call, now holding children, calls a method and will go on
\* at pc when it returns
PCall(frame, pc, children, idx) ==
    /\ index' = idx
    /\ pstack' = Append([pstack EXCEPT ![Len(pstack)] =
                            [@ EXCEPT !.pc = pc, !.children = children]],
                        [frame EXCEPT !.entered = idx])
    /\ UNCHANGED <<src, tokens, presult, pphase>>
    /\ UNCHANGED avars

PGoto(pc, children, idx) ==
    /\ index' = idx
    /\ pstack' = [pstack EXCEPT ![Len(pstack)] =
                     [@ EXCEPT !.pc = pc, !.children = children]]
    /\ UNCHANGED <<src, tokens, presult, pphase>>
    /\ UNCHANGED avars

\* tokens = Lexer(src)
Tokenize ==
    /\ pphase = "text"
    /\ tokens' = Lexer(src)
    /\ pphase' = "tokens"
    /\ UNCHANGED <<src, index, pstack, presult>>
    /\ UNCHANGED avars

\* Parser(tokens).parse_program() is called
ParserStart ==
    /\ pphase = "tokens"
    /\ index' = 0
    /\ pstack' = <<PFrame("parse_program", <<>>)>>
    /\ pphase' = "parsing"
    /\ UNCHANGED <<src, tokens, presult>>
    /\ UNCHANGED avars

\* Parser.parse_program: one turn of the while loop, or the return
parse_program ==
    /\ At("parse_program", 0)
    /\ IF index < Len(tokens)
       THEN PCall(PFrame("parse_declaration", <<>>), 0, PTop.children, index)
       ELSE PReturn(<<ParseNode(<<"Program">>, PTop.children)>>, index)

\* Parser.parse_declaration_list: one turn of the while loop, or the return
parse_declaration_list ==
    /\ At("parse_declaration_list", 0)
    /\ IF HasToken /\ current_token.value # <<"}">>
       THEN PCall(PFrame("parse_declaration", <<>>), 0, PTop.children, index)
       ELSE PReturn(<<ParseNode(<<"DeclarationList">>, PTop.children)>>, index)

\* Parser.parse_declaration, line 55: a KEYWORD starts a declaration, any
\* other token an expression statement
parse_declaration ==
    /\ At("parse_declaration", 0)
    /\ IF current_token.token_type = "KEYWORD"
       THEN PCall(PFrame("parse_type", <<>>), 1, <<>>, index)
       ELSE PCall(PFrame("parse_expression", <<>>), 5, <<>>, index)

\* Parser.parse_type
parse_type ==
    /\ At("parse_type", 0)
    /\ LET e == consume("KEYWORD", <<>>)
       IN  IF e # NoParseError THEN PRaise(e, index)
           ELSE IF current_token.value \notin {s_int, s_float, s_double, s_char}
           THEN PRaise(ParseError("UnexpectedType", NoToken, current_token), index + 1)
           ELSE PReturn(<<TypeNode(current_token.value)>>, index + 1)

\* Parser.parse_declaration, lines 57-58: the declared identifier
parse_declaration_identifier ==
    /\ At("parse_declaration", 1)
    /\ LET e == consume("IDENTIFIER", <<>>)
       IN  IF e # NoParseError THEN PRaise(e, index)
           ELSE PGoto(2, Append(PTop.children, IdentifierNode(current_token.value)),
                      index + 1)

\* Parser.parse_declaration, lines 60-70: function, initialized variable or
\* plain variable
parse_declaration_rest ==
    /\ At("parse_declaration", 2)
    /\ IF HasToken /\ current_token.value = <<"(">>
       THEN PCall(PFrame("parse_function", PTop.children), 4, <<>>, index)
       ELSE IF HasToken /\ current_token.value = <<"=">>
       THEN LET e == consume("OPERATOR", <<>>)
            IN  IF e # NoParseError THEN PRaise(e, index)
                ELSE PCall(PFrame("parse_expression", <<>>), 3, PTop.children, index + 1)
       ELSE LET e == consume("DELIMITER", <<>>)
            IN  IF e # NoParseError THEN PRaise(e, index)
                ELSE PReturn(<<ParseNode(<<"VariableDeclaration">>, PTop.children)>>,
                             index + 1)

\* Parser.parse_declaration, lines 66-67: the end of an initialized variable
parse_declaration_initialized ==
    /\ At("parse_declaration", 3)
    /\ LET e == consume("DELIMITER", <<>>)
       IN  IF e # NoParseError THEN PRaise(e, index)
           ELSE PReturn(<<ParseNode(<<"VariableDeclaration">>, PTop.children)>>,
                        index + 1)

\* Parser.parse_declaration, line 61: return what parse_function returned
parse_declaration_function ==
    /\ At("parse_declaration", 4)
    /\ PReturn(PTop.children, index)

\* Parser.parse_declaration, lines 74-75: the end of an expression statement
parse_declaration_expression ==
    /\ At("parse_declaration", 5)
    /\ LET e == consume("DELIMITER", <<>>)
       IN  IF e # NoParseError THEN PRaise(e, index)
           ELSE PReturn(<<ParseNode(<<"ExpressionStatement">>, PTop.children)>>,
                        index + 1)

\* Parser.parse_function, lines 79-82: '(' ')' '{', one consume a step, then
\* the body
parse_function ==
    /\ \E pc \in 0..2 :
          /\ At("parse_function", pc)
          /\ LET e == consume("DELIMITER", <<<<"(">>, <<")">>, <<"{">>>>[pc + 1])
             IN  IF e # NoParseError THEN PRaise(e, index)
                 ELSE IF pc < 2 THEN PGoto(pc + 1, PTop.children, index + 1)
                 ELSE PCall(PFrame("parse_declaration_list", <<>>), 3,
                            PTop.children, index + 1)

\* Parser.parse_function, lines 83-84
parse_function_end ==
    /\ At("parse_function", 3)
    /\ LET e == consume("DELIMITER", <<"}">>)
       IN  IF e # NoParseError THEN PRaise(e, index)
           ELSE PReturn(<<ParseNode(<<"Function">>, PTop.children)>>, index + 1)

\* Parser.parse_expression; token.token_type of no token is an AttributeError
parse_expression ==
    /\ At("parse_expression", 0)
    /\ IF ~ HasToken
       THEN PRaise(ParseError("AttributeError", NoToken, NoToken), index)
       ELSE IF current_token.token_type = "NUMBER"
       THEN PReturn(<<NumberNode(current_token.value)>>, index + 1)
       ELSE IF current_token.token_type = "IDENTIFIER"
       THEN IF index + 1 < Len(tokens) /\ tokens[index + 2].value = <<"(">>
            THEN PCall(PFrame("parse_function_call",
                              <<IdentifierNode(current_token.value)>>),
                       1, <<>>, index + 1)
            ELSE PReturn(<<IdentifierNode(current_token.value)>>, index + 1)
       ELSE PRaise(ParseError("UnexpectedToken", NoToken, current_token), index)

\* Parser.parse_expression, line 110: return what parse_function_call returned
parse_expression_call ==
    /\ At("parse_expression", 1)
    /\ PReturn(PTop.children, index)

\* Parser.parse_function_call, lines 117-118
parse_function_call ==
    /\ At("parse_function_call", 0)
    /\ LET e == consume("DELIMITER", <<"(">>)
       IN  IF e # NoParseError THEN PRaise(e, index)
           ELSE PCall(PFrame("parse_argument_list", <<>>), 1, PTop.children, index + 1)

\* Parser.parse_function_call, lines 119-120
parse_function_call_end ==
    /\ At("parse_function_call", 1)
    /\ LET e == consume("DELIMITER", <<")">>)
       IN  IF e # NoParseError THEN PRaise(e, index)
           ELSE PReturn(<<FunctionCallNode(Head(PTop.children), Tail(PTop.children))>>,
                        index + 1)

\* Parser.parse_argument_list, lines 124-126
parse_argument_list ==
    /\ At("parse_argument_list", 0)
    /\ IF HasToken /\ current_token.value # <<")">>
       THEN PCall(PFrame("parse_expression", <<>>), 1, PTop.children, index)
       ELSE PReturn(<<>>, index)

\* Parser.parse_argument_list, lines 127-130: one turn of the while loop, or
\* the return of the arguments
parse_argument_list_more ==
    /\ At("parse_argument_list", 1)
    /\ IF HasToken /\ current_token.value = <<",">>
       THEN LET e == consume("DELIMITER", <<",">>)
            IN  IF e # NoParseError THEN PRaise(e, index)
                ELSE PCall(PFrame("parse_expression", <<>>), 1, PTop.children, index + 1)
       ELSE PReturn(PTop.children, index)

PNext ==
    \/ Tokenize
    \/ ParserStart
    \/ parse_program
    \/ parse_declaration_list
    \/ parse_declaration
    \/ parse_type
    \/ parse_declaration_identifier
    \/ parse_declaration_rest
    \/ parse_declaration_initialized
    \/ parse_declaration_function
    \/ parse_declaration_expression
    \/ parse_function
    \/ parse_function_end
    \/ parse_expression
    \/ parse_expression_call
    \/ parse_function_call
    \/ parse_function_call_end
    \/ parse_argument_list
    \/ parse_argument_list_more

(***************************************************************************)
(* The inputs of the parser: a source text, or tokens made by the caller.  *)
(* Both are written from a sequence of lexemes.                            *)
(***************************************************************************)
Lexemes ==
    {s_int, s_if, s_x, s_5, <<"=">>, <<"(">>, <<")">>, <<"{">>, <<"}">>, <<";">>, <<",">>}

RECURSIVE Flatten(_)
Flatten(ss) == IF ss = <<>> THEN <<>> ELSE Head(ss) \o Flatten(Tail(ss))

\* the lexemes of e1, e2, ..., en
RECURSIVE CommaSeparated(_)
CommaSeparated(es) ==
    IF es = <<>> THEN <<>>
    ELSE IF Len(es) = 1 THEN es[1]
    ELSE es[1] \o <<<<",">>>> \o CommaSeparated(Tail(es))

SourceArguments == {<<s_5>>, <<s_x>>, <<s_x, <<"(">>, <<")">>>>}

SourceArgumentLists == SeqsUpTo(SourceArguments, MaxSourceArgs)

CallLexemes(args) == <<s_x, <<"(">>>> \o CommaSeparated(args) \o <<<<")">>>>

SourceExpressions ==
    {<<s_5>>, <<s_x>>} \cup {CallLexemes(args) : args \in SourceArgumentLists}

\* a declaration or statement with any lexeme where the ';' belongs
SourceStatements(terminators) ==
    {<<s_int, s_x, t>> : t \in terminators}
        \cup {<<s_int, s_x, <<"=">>>> \o e \o <<t>> :
                 e \in SourceExpressions, t \in terminators}
        \cup {e \o <<t>> : e \in SourceExpressions, t \in terminators}

SourceFunctions ==
    {<<s_int, s_x, <<"(">>, <<")">>, <<"{">>>> \o body \o <<<<"}">>>> :
        body \in {<<>>} \cup SourceStatements({<<";">>, <<"}">>})}

LexemeSequences ==
    SeqsUpTo(Lexemes, MaxTokens)
        \cup SourceStatements(Lexemes)
        \cup SourceFunctions
        \cup {first \o second :
                 first \in {<<s_x, <<";">>>>, <<s_int, s_x, <<"(">>, <<")">>, <<"{">>, <<"}">>>>},
                 second \in SourceStatements({<<";">>}) \cup SourceFunctions}

\* the text of a lexeme sequence: a blank between lexemes, but none before
\* ( ) , ;
SourceText(ls) ==
    Flatten([i \in 1..Len(ls) |->
                IF i = 1 \/ ls[i] \in {<<"(">>, <<")">>, <<",">>, <<";">>}
                THEN ls[i] ELSE <<" ">> \o ls[i]])

\* the tokens a caller makes of a lexeme sequence, the comma a DELIMITER
HandToken(l) ==
    IF l \in {s_int, s_if} THEN Token("KEYWORD", l)
    ELSE IF l = s_5 THEN Token("NUMBER", l)
    ELSE IF l = <<"=">> THEN Token("OPERATOR", l)
    ELSE IF l = s_x THEN Token("IDENTIFIER", l)
    ELSE Token("DELIMITER", l)

HandTokens(ls) == [i \in 1..Len(ls) |-> HandToken(ls[i])]

PInit ==
    /\ index = 0
    /\ pstack = <<>>
    /\ presult = PPending
    /\ \E ls \in LexemeSequences :
          \/ src = SourceText(ls) /\ tokens = <<>> /\ pphase = "text"
          \/ src = <<>> /\ tokens = HandTokens(ls) /\ pphase = "tokens"

\* no parser at work
PIdle ==
    /\ src = <<>>
    /\ tokens = <<>>
    /\ index = 0
    /\ pstack = <<>>
    /\ presult = PPending
    /\ pphase = "done"

\* an analyzer that is given nothing to analyze
AIdle ==
    /\ predefined_functions = None
    /\ symbol_tables = <<SeededTable(None)>>
    /\ astack = <<>>
    /\ outcome = Pending
    /\ runs = MaxRuns
    /\ visited = 0
    /\ popped = {}
    /\ last = [op |-> "init", node |-> NoNode, before |-> <<>>]

vars == <<avars, pvars>>

\* the semantic analyzer at work
Init == AInit /\ PIdle

Next == ANext

Spec == Init /\ [][Next]_vars

\* the lexer and the parser at work
ParserInit == PInit /\ AIdle

SpecParser == ParserInit /\ [][PNext]_vars

(***************************************************************************)
(* Vocabulary of the properties.  The readings of a node below go by the   *)
(* node's shape, not through Payload.                                      *)
(***************************************************************************)
AllNames == Names \cup {s_printf, s_getchar, s_scanf}

IsIdentifier(node) == \E n \in AllNames : node = IdentifierNode(n)
IsNumber(node)     == \E v \in NumberTexts : node = NumberNode(v)
IsCall(node)       == node.name = <<"FunctionCall">>

NameOf(node)   == CHOOSE n \in AllNames : node = IdentifierNode(n)
TypeOf(node)   == CHOOSE t \in Types : node = TypeNode(t)
CalleeOf(call) == NameOf(call.children[1])

\* the calls in a node, at any depth
RECURSIVE CallsIn(_)
CallsIn(node) ==
    (IF IsCall(node) THEN {node} ELSE {})
        \cup UNION {CallsIn(node.children[i]) : i \in 1..Len(node.children)}

\* the scopes of a chain that hold a name, and the innermost entry for it
Holders(chain, name) == {k \in 1..Len(chain) : name \in DOMAIN chain[k]}

Innermost(chain, name) ==
    LET k == CHOOSE h \in Holders(chain, name) :
                 \A g \in Holders(chain, name) : g <= h
    IN  chain[k][name]

\* the step just taken analyzed a declaration or statement, and how it ended
Analyzed(op)  == last.op = op
Failed        == outcome.status = "error"
FailedAs(kind, name) ==
    Failed /\ outcome.err.kind = kind /\ outcome.err.name = name

DeclaredType(node) == TypeOf(node.children[1])
DeclaredName(node) == NameOf(node.children[2])
HasInitializer(node) == Len(node.children) > 2
Initializer(node) == node.children[3]

\* the type lattice as the specification states it: declared type <- value types
Accepts ==
    (s_int    :> {s_int}) @@
    (s_float  :> {s_int, s_float}) @@
    (s_double :> {s_int, s_float, s_double}) @@
    (s_char   :> {s_char})

\* integer literal -> int, other floating-point literal -> double
LiteralType == (s_5 :> s_int) @@ (s_1e5 :> s_double) @@ (s_5dot0 :> s_double)

(***************************************************************************)
(* C1.  Every call whose callee is absent from the scope chain, or         *)
(* resolves to a symbol that is not a function, makes the analysis fail,   *)
(* with an undeclared-symbol or not-a-function error naming such a callee, *)
(* wherever the call stands: as a statement, as an initializer or as an    *)
(* argument of another call.                                               *)
(***************************************************************************)
CallFault(chain, call) ==
    IF Holders(chain, CalleeOf(call)) = {} THEN "Undeclared"
    ELSE IF ~ Innermost(chain, CalleeOf(call)).is_function THEN "NotAFunction"
    ELSE "None"

FaultyCalls == {c \in CallsIn(last.node) : CallFault(last.before, c) # "None"}

C1_EveryCallIsChecked ==
    FaultyCalls # {} =>
        \E c \in FaultyCalls : FailedAs(CallFault(last.before, c), CalleeOf(c))

(***************************************************************************)
(* C2.  declare fails with a duplicate-symbol error exactly when the name  *)
(* is already a key of the scope it is called on, whatever the old and new *)
(* types and flags and whatever the parent scopes hold; a failed declare   *)
(* leaves every scope as it was, a successful one adds just the new entry; *)
(* no entry of a live scope ever changes (first declaration wins), and a   *)
(* name held only by an enclosing scope can be declared again (shadowing). *)
(***************************************************************************)
\* declare was called by the step just taken: _analyze_function always calls
\* it, _analyze_variable_declaration unless the initializer check raised
DeclareCalled ==
    \/ Analyzed("Function")
    \/ Analyzed("VariableDeclaration")
           /\ (Failed => outcome.err.kind = "AlreadyDeclared")

\* the scope declare was called on, before and after the step
DeclareScope     == Len(last.before)
DeclaredSymbol   ==
    Symbol(DeclaredType(last.node), Analyzed("Function"))

C2_DuplicateIffInOwnScope ==
    /\ DeclareCalled =>
         LET own  == last.before[DeclareScope]
             name == DeclaredName(last.node)
         IN  /\ FailedAs("AlreadyDeclared", name) <=> name \in DOMAIN own
             /\ Failed <=> name \in DOMAIN own
             /\ \A k \in 1..(DeclareScope - 1) : symbol_tables[k] = last.before[k]
             /\ Failed => symbol_tables[DeclareScope] = own
             /\ ~ Failed =>
                  /\ DOMAIN symbol_tables[DeclareScope] = DOMAIN own \cup {name}
                  /\ symbol_tables[DeclareScope][name] = DeclaredSymbol
    /\ \A k \in 1..Len(last.before) :
          k <= Len(symbol_tables) =>
             \A n \in DOMAIN last.before[k] :
                /\ n \in DOMAIN symbol_tables[k]
                /\ symbol_tables[k][n] = last.before[k][n]

\* a redeclaration with another type and flag was refused
C2_Witness ==
    /\ Analyzed("VariableDeclaration")
    /\ FailedAs("AlreadyDeclared", DeclaredName(last.node))
    /\ current_symbol_table[DeclaredName(last.node)].is_function
    /\ current_symbol_table[DeclaredName(last.node)].type # DeclaredType(last.node)

\* a name held by the enclosing scope was declared again in a function scope
C2_ShadowingReached ==
    /\ DeclareCalled /\ ~ Failed
    /\ DeclareScope > 1
    /\ DeclaredName(last.node) \in DOMAIN last.before[DeclareScope - 1]

(***************************************************************************)
(* C3.  A lookup resolves a name to the entry of the innermost live scope  *)
(* holding it, walking outward to the global scope: it fails as undeclared *)
(* exactly when no live scope holds the name.  When a function has been    *)
(* analyzed its scope is gone from the chain; the global table changes     *)
(* only by declarations made at global level, and it is the table analyze  *)
(* returns.                                                                *)
(***************************************************************************)
\* the statement just analyzed is a call: the callee is looked up
CallStatement ==
    Analyzed("ExpressionStatement") /\ IsCall(last.node.children[1])

\* the declaration just analyzed has an identifier as initializer
IdentifierInitializer ==
    /\ Analyzed("VariableDeclaration")
    /\ HasInitializer(last.node)
    /\ IsIdentifier(Initializer(last.node))

C3_CallResolvesInnermost ==
    CallStatement =>
        LET name == CalleeOf(last.node.children[1])
        IN  IF Holders(last.before, name) = {}
            THEN FailedAs("Undeclared", name)
            ELSE IF Innermost(last.before, name).is_function
                 THEN ~ Failed
                 ELSE FailedAs("NotAFunction", name)

C3_IdentifierResolvesInnermost ==
    IdentifierInitializer =>
        LET name == NameOf(Initializer(last.node))
        IN  IF Holders(last.before, name) = {}
            THEN FailedAs("Undeclared", name)
            ELSE IF Innermost(last.before, name).type
                        \in Accepts[DeclaredType(last.node)]
                 THEN Failed => outcome.err.kind = "AlreadyDeclared"
                 ELSE FailedAs("TypeMismatch", Innermost(last.before, name).type)

C3_ScopeChainResolution ==
    /\ C3_CallResolvesInnermost
    /\ C3_IdentifierResolvesInnermost
    /\ Analyzed("FunctionReturn") =>
          symbol_tables = SubSeq(last.before, 1, Len(last.before) - 1)
    /\ (Len(last.before) > 1 /\ Len(symbol_tables) > 0) =>
          global_symbol_table = last.before[1]
    /\ outcome.status = "ok" => outcome.table = global_symbol_table
    /\ (runs = 1 /\ Len(astack) = 1) => Len(symbol_tables) = 1

\* a name declared only in a function body is looked up after the function
\* has been analyzed, and is not found
C3_Witness ==
    /\ CallStatement \/ IdentifierInitializer
    /\ Failed /\ outcome.err.kind = "Undeclared"
    /\ outcome.err.name \in popped

\* a name of the enclosing scope is found from inside a function body
C3_VisibleFromNestedReached ==
    /\ IdentifierInitializer /\ ~ Failed
    /\ Len(last.before) > 1
    /\ NameOf(Initializer(last.node)) \notin DOMAIN last.before[Len(last.before)]

(***************************************************************************)
(* C4.  A declaration `T id = value;` whose value is a number literal or   *)
(* an identifier that resolves to a symbol of type V.                      *)
(***************************************************************************)
NumberText(node) == CHOOSE v \in NumberTexts : node = NumberNode(v)

\* the declaration just analyzed has a value whose type the lattice judges
ValueChecked ==
    /\ Analyzed("VariableDeclaration")
    /\ HasInitializer(last.node)
    /\ \/ IsNumber(Initializer(last.node))
       \/ /\ IsIdentifier(Initializer(last.node))
          /\ Holders(last.before, NameOf(Initializer(last.node))) # {}

ValueType ==
    IF IsNumber(Initializer(last.node))
    THEN LiteralType[NumberText(Initializer(last.node))]
    ELSE Innermost(last.before, NameOf(Initializer(last.node))).type

NothingDeclared == symbol_tables = last.before

DeclaredAsVariable ==
    /\ ~ Failed
    /\ DeclaredName(last.node) \in DOMAIN current_symbol_table
    /\ current_symbol_table[DeclaredName(last.node)]
           = Symbol(DeclaredType(last.node), FALSE)

\* C4 as stated: the declaration succeeds and declares id exactly when V is
\* accepted by T, and otherwise fails with a type mismatch, declaring nothing
C4_AsStated ==
    ValueChecked =>
        IF ValueType \in Accepts[DeclaredType(last.node)]
        THEN DeclaredAsVariable
        ELSE FailedAs("TypeMismatch", ValueType) /\ NothingDeclared

\* C4 amended: when V is not accepted by T the declaration fails with a type
\* mismatch and declares nothing; when V is accepted it succeeds and declares
\* id as a variable of type T, unless id is already declared in the current
\* scope, in which case it fails with a duplicate-symbol error
C4_LatticeDecidesInitializer ==
    ValueChecked =>
        IF ValueType \in Accepts[DeclaredType(last.node)]
        THEN IF DeclaredName(last.node) \in DOMAIN last.before[Len(last.before)]
             THEN FailedAs("AlreadyDeclared", DeclaredName(last.node))
                      /\ NothingDeclared
             ELSE DeclaredAsVariable
        ELSE FailedAs("TypeMismatch", ValueType) /\ NothingDeclared

\* a float variable initializes a double: accepted, though float does not
\* accept double
C4_Witness ==
    /\ ValueChecked
    /\ IsIdentifier(Initializer(last.node))
    /\ ValueType = s_float
    /\ DeclaredType(last.node) = s_double
    /\ DeclaredAsVariable

\* a double literal is refused as the initializer of an int
C4_DoubleLiteralRefusedReached ==
    /\ ValueChecked
    /\ IsNumber(Initializer(last.node))
    /\ ValueType = s_double
    /\ DeclaredType(last.node) = s_int
    /\ FailedAs("TypeMismatch", s_double)

(***************************************************************************)
(* C6.  The self-referential declaration `T x = x;`.                       *)
(***************************************************************************)
SelfReference ==
    /\ IdentifierInitializer
    /\ NameOf(Initializer(last.node)) = DeclaredName(last.node)

\* C6 as stated: in every scope, whatever the enclosing scopes declare, the
\* declaration fails with an undeclared-symbol error naming x
C6_AsStated ==
    SelfReference => FailedAs("Undeclared", DeclaredName(last.node))

\* C6 amended: when no scope of the chain declares x yet, the declaration
\* fails with an undeclared-symbol error naming x, raised by the check of the
\* initializer
C6_SelfReferenceUndeclared ==
    (SelfReference /\ Holders(last.before, DeclaredName(last.node)) = {}) =>
        /\ FailedAs("Undeclared", DeclaredName(last.node))
        /\ outcome.err.wrap = "Assignment error"
        /\ NothingDeclared

\* `T x = x;` inside a function body, x declared nowhere
C6_Witness ==
    /\ SelfReference
    /\ Len(last.before) > 1
    /\ Holders(last.before, DeclaredName(last.node)) = {}
    /\ FailedAs("Undeclared", DeclaredName(last.node))

(***************************************************************************)
(* C7.  `T id;` as the first declaration given to a new analyzer with the  *)
(* default predefined functions.                                           *)
(***************************************************************************)
FirstDeclaration ==
    /\ predefined_functions = None
    /\ runs = 1 /\ visited = 1
    /\ Analyzed("VariableDeclaration")
    /\ ~ HasInitializer(last.node)

\* every entry the global scope held before the step is what a lookup from
\* the global scope returns after it
GlobalEntriesKept ==
    Len(last.before) > 0 =>
        \A n \in DOMAIN last.before[1] :
            lookup(symbol_tables, 1, n) = [err |-> NoError, info |-> last.before[1][n]]

\* C7 as stated: for any identifier the declaration succeeds and records
\* {type: T, is_function: false}, which later lookups keep returning
C7_AsStated ==
    /\ FirstDeclaration => DeclaredAsVariable
    /\ GlobalEntriesKept

\* C7 amended: for any identifier other than a predefined function name
\* (printf, puts, getchar, scanf) the declaration succeeds and records
\* {type: T, is_function: false}; an entry of the global scope is what every
\* later lookup from that scope returns, whatever is declared afterwards
C7_FirstDeclarationRecorded ==
    /\ (FirstDeclaration /\ DeclaredName(last.node) \notin DOMAIN default_functions)
           => DeclaredAsVariable
    /\ GlobalEntriesKept

C7_Witness ==
    /\ FirstDeclaration
    /\ DeclaredName(last.node) = s_x
    /\ DeclaredAsVariable
    /\ lookup(symbol_tables, 1, s_x).info = Symbol(DeclaredType(last.node), FALSE)

(***************************************************************************)
(* C9.  Before any analysis the global scope holds the four defaults when  *)
(* no mapping was supplied, and exactly the supplied entries otherwise,    *)
(* down to the empty mapping.                                              *)
(***************************************************************************)
C9_SeededAsSupplied ==
    runs = 0 =>
        global_symbol_table =
            IF predefined_functions.given
            THEN predefined_functions.map
            ELSE [n \in {s_printf, s_puts, s_getchar, s_scanf} |-> Symbol(s_int, TRUE)]

(***************************************************************************)
(* C10.  Every analyze call starts with the current scope being the global *)
(* scope and the global scope holding only the predefined functions.       *)
(***************************************************************************)
C10_EveryRunStartsFresh ==
    Analyzed("analyze") =>
        /\ Len(symbol_tables) = 1
        /\ global_symbol_table = SeededTable(predefined_functions)

(***************************************************************************)
(* C5.  Where the grammar has the ';' of a variable declaration or of an   *)
(* expression statement, any token but the delimiter ';' (or no token)     *)
(* makes the parse fail there: the cursor does not move and no tree is     *)
(* returned.                                                               *)
(***************************************************************************)
\* parse_declaration is about to consume the terminator
AtTerminator ==
    /\ pphase = "parsing"
    /\ pstack # <<>>
    /\ PTop.method = "parse_declaration"
    /\ \/ PTop.pc \in {3, 5}
       \/ /\ PTop.pc = 2
          /\ ~ (HasToken /\ current_token.value \in {<<"(">>, <<"=">>})

C5_OnlySemicolonTerminates ==
    [][(AtTerminator /\ current_token # Token("DELIMITER", <<";">>))
          => /\ presult'.status = "error"
             /\ presult'.tree = NoNode
             /\ index' = index]_vars

(***************************************************************************)
(* C8.  The text of a call x(e1, ..., en); with n >= 2 arguments, each a   *)
(* number or an identifier, is tokenized and parsed into a FunctionCall    *)
(* node holding the callee and one node for each argument, in order.       *)
(***************************************************************************)
PlainArgumentLists ==
    {args \in SeqsUpTo({<<s_5>>, <<s_x>>}, MaxSourceArgs) : Len(args) >= 2}

ArgumentNode(arg) == IF arg = <<s_5>> THEN NumberNode(s_5) ELSE IdentifierNode(s_x)

CallTree(args) ==
    ParseNode(<<"Program">>,
        <<ParseNode(<<"ExpressionStatement">>,
            <<FunctionCallNode(IdentifierNode(s_x),
                               [i \in 1..Len(args) |-> ArgumentNode(args[i])])>>)>>)

C8_CallWithArgumentsParses ==
    \A args \in PlainArgumentLists :
        (pphase = "done" /\ src = SourceText(CallLexemes(args) \o <<<<";">>>>))
            => presult = PReturned(CallTree(args))

\* given tokens in which the comma is a DELIMITER, the parser builds the tree
C8_CommaTokensParseReached ==
    \E args \in PlainArgumentLists :
        /\ pphase = "done"
        /\ src = <<>>
        /\ tokens = HandTokens(CallLexemes(args) \o <<<<";">>>>)
        /\ presult = PReturned(CallTree(args))

(***************************************************************************)
(* C11: the parser's cursor.                                               *)
(***************************************************************************)
\* the parser started by ParserInit, which is never left waiting: the whole
\* of Lexer and parse_program runs in one thread of control
SpecParserTerminates == ParserInit /\ [][PNext]_vars /\ WF_vars(PNext)

CursorInRange == 0 <= index /\ index <= Len(tokens)

CursorNeverDecreases == index' >= index

\* a step in which the innermost call, of parse_declaration, returns a node
DeclarationCompletes ==
    /\ pphase = "parsing"
    /\ pstack # <<>>
    /\ PTop.method = "parse_declaration"
    /\ pphase' = "parsing"
    /\ Len(pstack') = Len(pstack) - 1

DeclarationAdvances == DeclarationCompletes => index' >= PTop.entered + 1

ParsedToTheEnd == presult.status = "ok" => index = Len(tokens)

ParseEnded == pphase = "done" /\ pstack = <<>> /\ presult.status \in {"ok", "error"}

\* C11: for every token sequence parse_program ends, returning a Program tree
\* or raising an error; the cursor never decreases and stays within
\* 0..len(tokens); every completed call of parse_declaration has advanced the
\* cursor by at least one token; and when a tree is returned the cursor
\* equals len(tokens).
C11_ParseEndsCursorAdvances ==
    /\ [](CursorInRange /\ ParsedToTheEnd)
    /\ [][CursorNeverDecreases /\ DeclarationAdvances]_vars
    /\ <>ParseEnded

\* a Program of two declarations, the second a function with a declaration in
\* its body, has been returned with every token consumed
C11_Witness ==
    /\ ParseEnded
    /\ presult.status = "ok"
    /\ index = Len(tokens)
    /\ Len(presult.tree.children) = 2
    /\ presult.tree.children[2].name = <<"Function">>
    /\ presult.tree.children[2].children[3].children # <<>>

====
